---- MODULE Spec2Model ----
(***************************************************************************)
(* Model of the Poseidon2 tweakable hash of openvm-sig-agg:                *)
(*   src/src/tweak.rs            tweak encoding                            *)
(*   src/src/poseidon2.rs        padded permutation, compression, sponge,  *)
(*                               domain separator                          *)
(*   src/src/tweak_hash.rs       PoseidonTweakHash::apply                  *)
(*   src/src/poseidon2_config.rs round constants and their OnceLock caches *)
(*                                                                         *)
(* TLC integers are 32 bits wide, the program computes on u64, u128 and    *)
(* BigUint values: wide integers are sequences of bits, least significant  *)
(* bit first, of the width of the Rust type.                               *)
(***************************************************************************)
EXTENDS Integers, Sequences, FiniteSets, TLC

VARIABLES
    tweak_len,   \* const TWEAK_LEN of the to_field_elements call
    tree,        \* the TreeTweak
    chain,       \* the ChainTweak
    tree_fe,     \* TreeTweak::to_field_elements(), None before the call
    chain_fe,    \* ChainTweak::to_field_elements(), None before the call
    call,        \* the calls of the hash functions under comparison: one
                 \* record of arguments per run
    ret,         \* per run, None before the call returns or panics, and
                 \* Some(outcome) after
    once,        \* per width, the state of the OnceLock's Once
    cell,        \* per width, the value slot of the OnceLock: None or Some(c)
    pc,          \* per thread, where it is in get_or_init
    width,       \* per thread, the width of the cache it is calling
    value,       \* per thread, the constants its closure has generated
    calls,       \* per thread, the calls it has made
    returned,    \* per width, the instances the getter has returned references to
    conversions, \* per width, the runs of generate_round_constants so far
    stores,      \* per width, the writes of the value slot so far
    first,       \* per width, the first value written to the slot
    used         \* per width, the constants the hash invocations were built from

tweakVars == <<tweak_len, tree, chain, tree_fe, chain_fe>>
hashVars == <<call, ret>>
cacheVars == <<once, cell, pc, width, value, calls, returned, conversions, stores, first, used>>
vars == <<tweak_len, tree, chain, tree_fe, chain_fe, call, ret,
          once, cell, pc, width, value, calls, returned, conversions, stores, first, used>>

\* results are options: None before the call, Some(v) after it
None == <<>>
Some(v) == <<v>>

(***************************************************************************)
(* Bounds of the model.                                                    *)
(***************************************************************************)
MaxTweakLen == 4
\* inputs of padded_permute and compress are up to WIDTH + MaxExtra long
MaxExtra == 2
\* apply() is called with 0..MaxBlocks message blocks
MaxBlocks == 3
\* sponge inputs are followed by up to MaxPadding zero elements
MaxPadding == 2
\* source tables have up to MaxRowDelta rows less or more than expected
MaxRowDelta == 2
\* threads calling the constant getters, and calls per thread
NumThreads == 2
MaxCalls == 2

(***************************************************************************)
(* Program constants.                                                      *)
(***************************************************************************)
PRIME == 2013265921
TWEAK_SEPARATOR_FOR_TREE_HASH == 1
TWEAK_SEPARATOR_FOR_CHAIN_HASH == 0

(***************************************************************************)
(* The field: BabyBear elements are canonical representatives in 0..p-1.   *)
(***************************************************************************)
AddF(a, b) == IF a >= PRIME - b THEN a - (PRIME - b) ELSE a + b

(***************************************************************************)
(* Wide unsigned integers as bit sequences, least significant bit first.   *)
(***************************************************************************)
Pow2(k) == IF k = 0 THEN 1 ELSE IF k = 1 THEN 2 ELSE IF k = 2 THEN 4
           ELSE IF k = 3 THEN 8 ELSE IF k = 4 THEN 16 ELSE IF k = 5 THEN 32
           ELSE IF k = 6 THEN 64 ELSE IF k = 7 THEN 128 ELSE IF k = 8 THEN 256
           ELSE IF k = 9 THEN 512 ELSE IF k = 10 THEN 1024
           ELSE IF k = 11 THEN 2048 ELSE IF k = 12 THEN 4096
           ELSE IF k = 13 THEN 8192 ELSE IF k = 14 THEN 16384 ELSE 32768

\* an integer below 2^16 as w <= 16 bits
ToBits(n, w) == [i \in 1..w |-> (n \div Pow2(i - 1)) % 2]

\* a u32 given by its two 16-bit halves <<hi, lo>>
U32Bits(v) == ToBits(v[2], 16) \o ToBits(v[1], 16)

\* `x as uW` of a narrower unsigned x
ZeroExtend(bits, w) == [i \in 1..w |-> IF i <= Len(bits) THEN bits[i] ELSE 0]

\* `x << k` on a fixed-width integer: the bits shifted out are lost
Shl(bits, k) == [i \in 1..Len(bits) |-> IF i <= k THEN 0 ELSE bits[i - k]]

\* `a | b` on two integers of the same width
BitOr(a, b) == [i \in 1..Len(a) |-> IF a[i] = 1 \/ b[i] = 1 THEN 1 ELSE 0]

\* the array `a` after `a[i] = v`
Store(a, i, v) == [j \in 1..Len(a) |-> IF j = i THEN v ELSE a[j]]

IsZero(bits) == \A i \in 1..Len(bits) : bits[i] = 0

\* one step of the long division by PRIME: the remainder r < PRIME takes the
\* next bit b; the result is the quotient bit and the new remainder
DivStep(r, b) ==
    IF r >= PRIME - r
    THEN [q |-> 1, r |-> (r - (PRIME - r)) + b]
    ELSE IF r + r + b = PRIME THEN [q |-> 1, r |-> 0]
         ELSE [q |-> 0, r |-> r + r + b]

\* the long division of bits[lo..hi] by PRIME, entered with remainder r from
\* the bits above hi; the range is halved to keep the evaluation shallow
RECURSIVE DivRange(_, _, _, _)
DivRange(bits, r, lo, hi) ==
    IF lo = hi
    THEN LET s == DivStep(r, bits[lo]) IN [q |-> <<s.q>>, r |-> s.r]
    ELSE LET mid == (lo + hi) \div 2
         IN  CHOOSE res \in UNION {
                 {[q |-> low.q \o up.q, r |-> low.r] :
                      low \in {DivRange(bits, up.r, lo, mid)}} :
                 up \in {DivRange(bits, r, mid + 1, hi)}} : TRUE

\* (bits / PRIME, bits % PRIME) of a wide integer
DivModPrime(bits) ==
    IF IsZero(bits) THEN [q |-> bits, r |-> 0]
    ELSE DivRange(bits, 0, 1, Len(bits))

(***************************************************************************)
(* src/src/tweak.rs                                                        *)
(***************************************************************************)
\* EncodeLoop without `tweak /= prime`
RECURSIVE EncodeLoop_NoDivide(_, _, _)
EncodeLoop_NoDivide(tweak, i, result) ==
    IF i > Len(result) THEN result
    ELSE IF IsZero(tweak) THEN result
    ELSE LET dm == DivModPrime(tweak)
         IN  EncodeLoop_NoDivide(tweak, i + 1, Store(result, i, dm.r))

\* the loop of to_field_elements: `i` is the next slot of `result`
RECURSIVE EncodeLoop(_, _, _)
EncodeLoop(tweak, i, result) ==
    IF i > Len(result) THEN result
    ELSE IF IsZero(tweak) THEN result
    ELSE LET dm == DivModPrime(tweak)
         IN  EncodeLoop(dm.q, i + 1, Store(result, i, dm.r))

\* TreePacked tagged with the chain separator
TreePacked_ChainSeparator(t) ==
    BitOr(BitOr(Shl(ZeroExtend(ToBits(t.level, 8), 64), 40),
                Shl(ZeroExtend(U32Bits(t.position), 64), 8)),
          ZeroExtend(ToBits(TWEAK_SEPARATOR_FOR_CHAIN_HASH, 8), 64))

\* the packed u64 of a tree tweak
TreePacked(t) ==
    BitOr(BitOr(Shl(ZeroExtend(ToBits(t.level, 8), 64), 40),
                Shl(ZeroExtend(U32Bits(t.position), 64), 8)),
          ZeroExtend(ToBits(TWEAK_SEPARATOR_FOR_TREE_HASH, 8), 64))

\* the packed u128 of a chain tweak
ChainPacked(c) ==
    BitOr(BitOr(BitOr(Shl(ZeroExtend(U32Bits(c.epoch), 128), 40),
                      Shl(ZeroExtend(ToBits(c.chain_index, 16), 128), 24)),
                Shl(ZeroExtend(ToBits(c.position, 16), 128), 8)),
          ZeroExtend(ToBits(TWEAK_SEPARATOR_FOR_CHAIN_HASH, 8), 128))

TreeToFieldElements(t, TWEAK_LEN) ==
    EncodeLoop(TreePacked(t), 1, [i \in 1..TWEAK_LEN |-> 0])

ChainToFieldElements(c, TWEAK_LEN) ==
    EncodeLoop(ChainPacked(c), 1, [i \in 1..TWEAK_LEN |-> 0])

\* PoseidonTweak::to_field_elements: dispatch on the variant
PoseidonTweakToFieldElements(tw, TWEAK_LEN) ==
    IF tw.kind = "Tree" THEN TreeToFieldElements(tw.tweak, TWEAK_LEN)
    ELSE ChainToFieldElements(tw.tweak, TWEAK_LEN)

(***************************************************************************)
(* Inputs of the tweak encoding.  A u32 is <<high half, low half>>.        *)
(***************************************************************************)
U32_MAX == <<65535, 65535>>
U16_MAX == 65535
U8_MAX == 255

TreeTweaks ==
    [level : {0, U8_MAX}, position : {<<0, 0>>, U32_MAX}]
    \cup {[level |-> 1, position |-> <<0, 2>>],
          [level |-> 25, position |-> <<0, 26282>>]}

\* epoch 940032000 = 14343 * 2^16 + 49152
ChainTweaks ==
    [epoch : {<<0, 0>>, U32_MAX}, chain_index : {0, U16_MAX}, position : {0, U16_MAX}]
    \cup {[epoch |-> <<0, 1>>, chain_index |-> 2, position |-> 3],
          [epoch |-> <<14343, 49152>>, chain_index |-> 61200, position |-> 1]}

\* the two permutation widths, and the state in which no getter of the
\* constant caches has been called
POSEIDON2_WIDTH_16 == 16
POSEIDON2_WIDTH_24 == 24
Widths == {POSEIDON2_WIDTH_16, POSEIDON2_WIDTH_24}

Threads == 1..NumThreads

NoCache ==
    /\ once = [w \in Widths |-> "incomplete"]
    /\ cell = [w \in Widths |-> None]
    /\ pc = [t \in Threads |-> "idle"]
    /\ width = [t \in Threads |-> POSEIDON2_WIDTH_16]
    /\ value = [t \in Threads |-> None]
    /\ calls = [t \in Threads |-> 0]
    /\ returned = [w \in Widths |-> {}]
    /\ conversions = [w \in Widths |-> 0]
    /\ stores = [w \in Widths |-> 0]
    /\ first = [w \in Widths |-> None]
    /\ used = [w \in Widths |-> {}]

InitTweak ==
    /\ tweak_len \in 0..MaxTweakLen
    /\ tree \in TreeTweaks
    /\ chain \in ChainTweaks
    /\ tree_fe = None
    /\ chain_fe = None
    /\ call = <<>>
    /\ ret = <<>>
    /\ NoCache

TreeEncode ==
    /\ tree_fe = None
    /\ tree_fe' = Some(TreeToFieldElements(tree, tweak_len))
    /\ UNCHANGED <<tweak_len, tree, chain, chain_fe, hashVars, cacheVars>>

ChainEncode ==
    /\ chain_fe = None
    /\ chain_fe' = Some(ChainToFieldElements(chain, tweak_len))
    /\ UNCHANGED <<tweak_len, tree, chain, tree_fe, hashVars, cacheVars>>

NextTweak == TreeEncode \/ ChainEncode

SpecTweak == InitTweak /\ [][NextTweak]_vars

(***************************************************************************)
(* src/src/poseidon2.rs                                                    *)
(***************************************************************************)

\* the sum of the first i elements of x in the field
RECURSIVE SumF(_, _)
SumF(x, i) == IF i = 0 THEN 0 ELSE AddF(SumF(x, i - 1), x[i])

\* Permutation::permute_mut of the instance.  The Poseidon2 permutation is
\* the p3 library's; the functions here only rely on it being a fixed
\* bijection of the state, and this one stands for it: every element takes
\* its successor (cyclically) plus the sum of the whole state plus a round
\* constant of its width and position, so that every output element depends
\* on every input element and the two widths permute differently.
Permute(state) ==
    LET n == Len(state)
        total == SumF(state, n)
    IN  [i \in 1..n |-> AddF(AddF(state[(i % n) + 1], total), n + i)]

\* the outcome of a call: it panicked or returned `out`, after `perms`
\* invocations of the permutation
Panicked(perms) == [panic |-> TRUE, out |-> <<>>, perms |-> perms]
Returned(out, perms) == [panic |-> FALSE, out |-> out, perms |-> perms]

\* poseidon2_padded_permute without the assert on the input length: the
\* elements over WIDTH are cut off
poseidon2_padded_permute_NoAssert(WIDTH, x) ==
    Returned(Permute([i \in 1..WIDTH |-> IF i <= Len(x) THEN x[i] ELSE 0]), 1)

poseidon2_padded_permute(WIDTH, x) ==
    IF ~(Len(x) <= WIDTH) THEN Panicked(0)
    ELSE Returned(Permute([i \in 1..WIDTH |-> IF i <= Len(x) THEN x[i] ELSE 0]), 1)

\* poseidon2_compress without the feed-forward: Truncate(PoseidonPerm(x))
poseidon2_compress_NoFeedForward(OUT_LEN, WIDTH, x) ==
    IF ~(Len(x) >= OUT_LEN) THEN Panicked(0)
    ELSE LET permuted_x == poseidon2_padded_permute(WIDTH, x)
         IN  IF permuted_x.panic THEN Panicked(permuted_x.perms)
             ELSE Returned([i \in 1..OUT_LEN |-> permuted_x.out[i]],
                           permuted_x.perms)

poseidon2_compress(OUT_LEN, WIDTH, x) ==
    IF ~(Len(x) >= OUT_LEN) THEN Panicked(0)
    ELSE LET permuted_x == poseidon2_padded_permute(WIDTH, x)
         IN  IF permuted_x.panic THEN Panicked(permuted_x.perms)
             ELSE Returned([i \in 1..OUT_LEN |-> AddF(permuted_x.out[i], x[i])],
                           permuted_x.perms)

\* the absorption loop of poseidon2_sponge over input_vector.chunks_exact(rate):
\* `k` chunks are absorbed, `states` are the states so far, the last one current
RECURSIVE Absorb(_, _, _, _)
Absorb(states, input_vector, rate, k) ==
    IF (k + 1) * rate > Len(input_vector) THEN states
    ELSE LET state == states[Len(states)]
             chunk == SubSeq(input_vector, k * rate + 1, (k + 1) * rate)
             added == [i \in 1..Len(state) |->
                         IF i <= Len(chunk) THEN AddF(state[i], chunk[i]) ELSE state[i]]
         IN  Absorb(Append(states, Permute(added)), input_vector, rate, k + 1)

\* the squeeze loop of poseidon2_sponge
RECURSIVE Squeeze(_, _, _, _)
Squeeze(states, out, OUT_LEN, rate) ==
    IF ~(Len(out) < OUT_LEN) THEN [states |-> states, out |-> out]
    ELSE LET state == states[Len(states)]
         IN  Squeeze(Append(states, Permute(state)),
                     out \o SubSeq(state, 1, rate), OUT_LEN, rate)

\* poseidon2_sponge with a padding that binds the input length: a one, then zeros
poseidon2_sponge_PadsWithOne(OUT_LEN, CAPACITY, WIDTH, capacity_value, x) ==
    LET rate == WIDTH - CAPACITY
        marked == Append(x, 1)
        extra_elements == (rate - (Len(marked) % rate)) % rate
        input_vector == [i \in 1..(Len(marked) + extra_elements) |->
                            IF i <= Len(marked) THEN marked[i] ELSE 0]
        state == [i \in 1..(WIDTH - CAPACITY) |->
                     IF i <= CAPACITY THEN capacity_value[i] ELSE 0]
        absorbed == Absorb(<<state>>, input_vector, rate, 0)
        squeezed == Squeeze(absorbed, <<>>, OUT_LEN, rate)
    IN  [panic |-> FALSE,
         out |-> SubSeq(squeezed.out, 1, OUT_LEN),
         perms |-> Len(squeezed.states) - 1,
         states |-> squeezed.states,
         absorbed |-> Len(absorbed) - 1]

\* poseidon2_sponge; the permutation state is an array of the length the
\* bound Permutation<[BabyBear; I::WIDTH - CAPACITY]> gives it.  The outcome
\* records the successive states: the initial one, then one per permutation
poseidon2_sponge(OUT_LEN, CAPACITY, WIDTH, capacity_value, x) ==
    LET rate == WIDTH - CAPACITY
        extra_elements == (rate - (Len(x) % rate)) % rate
        input_vector == [i \in 1..(Len(x) + extra_elements) |->
                            IF i <= Len(x) THEN x[i] ELSE 0]
        state == [i \in 1..(WIDTH - CAPACITY) |->
                     IF i <= CAPACITY THEN capacity_value[i] ELSE 0]
        absorbed == Absorb(<<state>>, input_vector, rate, 0)
        squeezed == Squeeze(absorbed, <<>>, OUT_LEN, rate)
    IN  [panic |-> FALSE,
         out |-> SubSeq(squeezed.out, 1, OUT_LEN),
         perms |-> Len(squeezed.states) - 1,
         states |-> squeezed.states,
         absorbed |-> Len(absorbed) - 1]

\* `item as u32` of a usize given by its 16-bit parts <<bits 32.., 16..31, 0..15>>
UsizeAsU32Bits(item) == ToBits(item[3], 16) \o ToBits(item[2], 16)

\* FoldParams that loses the accumulator: acc = item
RECURSIVE FoldParams_DropsAcc(_, _, _)
FoldParams_DropsAcc(params, i, acc) ==
    IF i > Len(params) THEN acc
    ELSE FoldParams_DropsAcc(params, i + 1, UsizeAsU32Bits(params[i]))

\* params.iter().fold(0, |acc, item| acc * 2^32 + (item as u32)) from item i on
RECURSIVE FoldParams(_, _, _)
FoldParams(params, i, acc) ==
    IF i > Len(params) THEN acc
    ELSE FoldParams(params, i + 1, UsizeAsU32Bits(params[i]) \o acc)

\* input.iter_mut().fold(domain_uint, ...): slot i takes acc % PRIME and the
\* accumulator goes on as (acc - tmp) / PRIME
RECURSIVE DigitLoop(_, _, _)
DigitLoop(acc, i, input) ==
    IF i > Len(input) THEN input
    ELSE CHOOSE res \in {DigitLoop(dm.q, i + 1, Store(input, i, dm.r)) :
                            dm \in {DivModPrime(acc)}} : TRUE

\* the vector poseidon_safe_domain_separator gives to the compression
DomainSeparatorInput(WIDTH, params) ==
    DigitLoop(FoldParams(params, 1, <<>>), 1, [i \in 1..WIDTH |-> 0])

\* poseidon_safe_domain_separator; the outcome records the compressed vector
poseidon_safe_domain_separator(OUT_LEN, WIDTH, params) ==
    LET input == DomainSeparatorInput(WIDTH, params)
        r == poseidon2_compress(OUT_LEN, WIDTH, input)
    IN  [panic |-> r.panic, out |-> r.out, perms |-> r.perms, input |-> input]

(***************************************************************************)
(* src/src/tweak_hash.rs                                                   *)
(***************************************************************************)
DOMAIN_PARAMETERS_LENGTH == 4

\* a small usize as its 16-bit parts
Usize(n) == <<0, 0, n>>

\* self.message.iter().flat_map(|sub_arr| sub_arr.iter())
Flatten(message, HASH_LEN) ==
    [i \in 1..(Len(message) * HASH_LEN) |->
        message[((i - 1) \div HASH_LEN) + 1][((i - 1) % HASH_LEN) + 1]]

\* apply with the one-block arm on the width-24 instance
apply_OneBlockOnWidth24(h) ==
    LET tweak_fe == PoseidonTweakToFieldElements(h.tweak, h.TWEAK_LEN)
        n == Len(h.message)
    IN  IF n = 1
        THEN poseidon2_compress(h.HASH_LEN, POSEIDON2_WIDTH_24,
                                h.parameter \o tweak_fe \o h.message[1])
        ELSE IF n = 2
        THEN poseidon2_compress(h.HASH_LEN, POSEIDON2_WIDTH_24,
                                h.parameter \o tweak_fe \o h.message[1] \o h.message[2])
        ELSE Returned([i \in 1..h.HASH_LEN |-> 0], 0)

\* PoseidonTweakHash::apply on the instance h
apply(h) ==
    LET tweak_fe == PoseidonTweakToFieldElements(h.tweak, h.TWEAK_LEN)
        n == Len(h.message)
    IN  IF n = 1
        THEN poseidon2_compress(h.HASH_LEN, POSEIDON2_WIDTH_16,
                                h.parameter \o tweak_fe \o h.message[1])
        ELSE IF n = 2
        THEN poseidon2_compress(h.HASH_LEN, POSEIDON2_WIDTH_24,
                                h.parameter \o tweak_fe \o h.message[1] \o h.message[2])
        ELSE \* combined_input, lengths and poseidon_instance are computed and
             \* dropped: the sponge call is commented out
             Returned([i \in 1..h.HASH_LEN |-> 0], 0)

(***************************************************************************)
(* src/src/poseidon2_config.rs                                             *)
(***************************************************************************)
BABY_BEAR_POSEIDON2_HALF_FULL_ROUNDS == 4
BABY_BEAR_POSEIDON2_PARTIAL_ROUNDS_16 == 13
BABY_BEAR_POSEIDON2_PARTIAL_ROUNDS_24 == 21

\* the const P the callers pair with WIDTH
PartialRounds(WIDTH) ==
    IF WIDTH = 16 THEN BABY_BEAR_POSEIDON2_PARTIAL_ROUNDS_16
    ELSE BABY_BEAR_POSEIDON2_PARTIAL_ROUNDS_24

\* horizen_to_p3_babybear: from_canonical_u64 of the canonical representative
horizen_to_p3_babybear(e) == e % PRIME

\* generate_round_constants::<WIDTH, P>(rc_source): every index out of range,
\* and every try_into().unwrap() of a row that has not WIDTH elements, panics
generate_round_constants(WIDTH, P, rc_source) ==
    LET p3_rc == [r \in 1..Len(rc_source) |->
                    [j \in 1..Len(rc_source[r]) |-> horizen_to_p3_babybear(rc_source[r][j])]]
        p_end == IF WIDTH = 16
                 THEN BABY_BEAR_POSEIDON2_HALF_FULL_ROUNDS + BABY_BEAR_POSEIDON2_PARTIAL_ROUNDS_16
                 ELSE BABY_BEAR_POSEIDON2_HALF_FULL_ROUNDS + BABY_BEAR_POSEIDON2_PARTIAL_ROUNDS_24
        half == 1..BABY_BEAR_POSEIDON2_HALF_FULL_ROUNDS
        beginning_ok == \A i \in half : i <= Len(p3_rc) /\ Len(p3_rc[i]) = WIDTH
        partial_ok ==
            \A i \in 1..P :
                /\ i + BABY_BEAR_POSEIDON2_HALF_FULL_ROUNDS <= Len(p3_rc)
                /\ Len(p3_rc[i + BABY_BEAR_POSEIDON2_HALF_FULL_ROUNDS]) >= 1
        ending_ok == \A i \in half : i + p_end <= Len(p3_rc) /\ Len(p3_rc[i + p_end]) = WIDTH
    IN  IF ~(WIDTH \in {16, 24}) THEN Panicked(0)
        ELSE IF ~(beginning_ok /\ partial_ok /\ ending_ok) THEN Panicked(0)
        ELSE Returned(
            [beginning_full_round_constants |-> [i \in half |-> p3_rc[i]],
             partial_round_constants |->
                 [i \in 1..P |-> p3_rc[i + BABY_BEAR_POSEIDON2_HALF_FULL_ROUNDS][1]],
             ending_full_round_constants |-> [i \in half |-> p3_rc[i + p_end]]], 0)

(***************************************************************************)
(* Inputs of the hash functions: vectors of field elements.                *)
(***************************************************************************)
Ramp(n) == [i \in 1..n |-> i]
Fill(n, v) == [i \in 1..n |-> v]
Vectors(n) == {Ramp(n), Fill(n, 0), Fill(n, PRIME - 1)}

OutLens == {1, 8, 24}

PermuteCalls ==
    UNION {{[op |-> "padded_permute", WIDTH |-> w, x |-> x] :
              x \in UNION {Vectors(n) : n \in 0..(w + MaxExtra)}} : w \in Widths}

CompressCalls ==
    UNION {{[op |-> "compress", WIDTH |-> w, OUT_LEN |-> o, x |-> x] :
              o \in OutLens, x \in UNION {Vectors(n) : n \in 0..(w + MaxExtra)}} :
           w \in Widths}

NoTweak ==
    /\ tweak_len = 0
    /\ tree = [level |-> 0, position |-> <<0, 0>>]
    /\ chain = [epoch |-> <<0, 0>>, chain_index |-> 0, position |-> 0]
    /\ tree_fe = None
    /\ chain_fe = None

InitCompress ==
    /\ NoTweak
    /\ NoCache
    /\ call \in {<<c>> : c \in PermuteCalls \cup CompressCalls}
    /\ ret = <<None>>

PaddedPermute(s) ==
    /\ call[s].op = "padded_permute"
    /\ ret[s] = None
    /\ ret' = [ret EXCEPT ![s] = Some(poseidon2_padded_permute(call[s].WIDTH, call[s].x))]
    /\ UNCHANGED <<tweakVars, cacheVars, call>>

Compress(s) ==
    /\ call[s].op = "compress"
    /\ ret[s] = None
    /\ ret' = [ret EXCEPT ![s] =
                 Some(poseidon2_compress(call[s].OUT_LEN, call[s].WIDTH, call[s].x))]
    /\ UNCHANGED <<tweakVars, cacheVars, call>>

NextCompress ==
    \/ \E s \in DOMAIN call : PaddedPermute(s)
    \/ \E s \in DOMAIN call : Compress(s)

SpecCompress == InitCompress /\ [][NextCompress]_vars

(***************************************************************************)
(* PoseidonTweakHash instances.                                            *)
(***************************************************************************)
Tweaks ==
    {[kind |-> "Tree", tweak |-> [level |-> 0, position |-> <<0, 0>>]],
     [kind |-> "Tree", tweak |-> [level |-> 1, position |-> <<0, 2>>]],
     [kind |-> "Chain", tweak |-> [epoch |-> <<0, 1>>, chain_index |-> 2, position |-> 3]],
     [kind |-> "Chain", tweak |-> [epoch |-> <<14343, 49152>>, chain_index |-> 61200,
                                  position |-> 1]]}

Blocks(HASH_LEN) == {Ramp(HASH_LEN), Fill(HASH_LEN, PRIME - 1)}

RECURSIVE Messages(_, _)
Messages(n, HASH_LEN) ==
    IF n = 0 THEN {<<>>}
    ELSE {Append(m, b) : m \in Messages(n - 1, HASH_LEN), b \in Blocks(HASH_LEN)}

ApplyCalls ==
    UNION {{[op |-> "apply", PARAMETER_LEN |-> pl, TWEAK_LEN |-> tl, HASH_LEN |-> hl,
             CAPACITY |-> 9, NUM_CHUNKS |-> 3,
             parameter |-> p, tweak |-> tw, message |-> m] :
              p \in {Ramp(pl), Fill(pl, PRIME - 1)}, tw \in Tweaks,
              m \in UNION {Messages(n, hl) : n \in 0..MaxBlocks}} :
           <<pl, tl, hl>> \in {1, 5} \X {2, 3} \X {7, 9}}

InitApply ==
    /\ NoTweak
    /\ NoCache
    /\ call \in {<<c>> : c \in ApplyCalls}
    /\ ret = <<None>>

Apply(s) ==
    /\ call[s].op = "apply"
    /\ ret[s] = None
    /\ ret' = [ret EXCEPT ![s] = Some(apply(call[s]))]
    /\ UNCHANGED <<tweakVars, cacheVars, call>>

NextApply == \E s \in DOMAIN call : Apply(s)

SpecApply == InitApply /\ [][NextApply]_vars

(***************************************************************************)
(* Sponge calls, compared in pairs that differ in the capacity value.      *)
(***************************************************************************)
Unit(n, k) == [i \in 1..n |-> IF i = k THEN 1 ELSE 0]
CapacityValues(CAPACITY) == {Fill(CAPACITY, 0), Unit(CAPACITY, 1), Unit(CAPACITY, CAPACITY)}

SpongeInputs(rate) ==
    {<<>>} \cup UNION {{Ramp(n), Fill(n, PRIME - 1)} : n \in {1, rate, rate + 1}}

SpongeCalls ==
    UNION {{[op |-> "sponge", WIDTH |-> w, CAPACITY |-> c, OUT_LEN |-> o,
             capacity_value |-> v, x |-> x] :
              o \in {1, 8}, v \in CapacityValues(c), x \in SpongeInputs(w - c)} :
           <<w, c>> \in Widths \X {1, 9, 13}}

InitSponge ==
    /\ NoTweak
    /\ NoCache
    /\ call \in UNION {{<<c, [c EXCEPT !.capacity_value = v]>> :
                           v \in CapacityValues(c.CAPACITY)} : c \in SpongeCalls}
    /\ ret = <<None, None>>

Sponge(s) ==
    /\ call[s].op = "sponge"
    /\ ret[s] = None
    /\ ret' = [ret EXCEPT ![s] =
                 Some(poseidon2_sponge(call[s].OUT_LEN, call[s].CAPACITY, call[s].WIDTH,
                                       call[s].capacity_value, call[s].x))]
    /\ UNCHANGED <<tweakVars, cacheVars, call>>

NextSponge == \E s \in DOMAIN call : Sponge(s)

SpecSponge == InitSponge /\ [][NextSponge]_vars

(***************************************************************************)
(* Pairs of sponge calls with the same capacity value, on inputs with and  *)
(* without trailing zero elements.                                         *)
(***************************************************************************)
SpongeBases(rate) == {<<>>, Ramp(1), Ramp(rate - 1), Ramp(rate), Ramp(rate + 1)}
ZeroExtended(rate) == {b \o Fill(k, 0) : b \in SpongeBases(rate), k \in 0..MaxPadding}

SpongeLengthCalls ==
    UNION {{[op |-> "sponge", WIDTH |-> w, CAPACITY |-> c, OUT_LEN |-> o,
             capacity_value |-> v, x |-> x] :
              o \in {1, 8}, v \in CapacityValues(c), x \in SpongeBases(w - c)} :
           <<w, c>> \in Widths \X {1, 9, 13}}

InitSpongeLength ==
    /\ NoTweak
    /\ NoCache
    /\ call \in UNION {{<<c, [c EXCEPT !.x = y]>> :
                           y \in ZeroExtended(c.WIDTH - c.CAPACITY)} :
                        c \in SpongeLengthCalls}
    /\ ret = <<None, None>>

SpecSpongeLength == InitSpongeLength /\ [][NextSponge]_vars

(***************************************************************************)
(* Domain separator calls, compared in pairs of configuration lists.       *)
(***************************************************************************)
\* 0, 1 and 2^32 + 1
ParamItems == {Usize(0), Usize(1), <<1, 0, 1>>}

ParamLists ==
    {<<>>} \cup {<<a>> : a \in ParamItems} \cup {<<a, b>> : a, b \in ParamItems}
    \cup {<<Usize(5), Usize(2), Usize(3), Usize(7)>>,
          <<Usize(5), Usize(2), Usize(3), Usize(9)>>,
          <<Usize(5), Usize(3), Usize(2), Usize(7)>>,
          <<Usize(0), Usize(0), Usize(0), Usize(1)>>}

DomainSeparatorCalls ==
    {[op |-> "domain_separator", WIDTH |-> w, OUT_LEN |-> 9, params |-> l] :
        w \in Widths, l \in ParamLists}

InitDomainSeparator ==
    /\ NoTweak
    /\ NoCache
    /\ call \in UNION {{<<c, [c EXCEPT !.params = l]>> : l \in ParamLists} :
                        c \in DomainSeparatorCalls}
    /\ ret = <<None, None>>

DomainSeparator(s) ==
    /\ call[s].op = "domain_separator"
    /\ ret[s] = None
    /\ ret' = [ret EXCEPT ![s] =
                 Some(poseidon_safe_domain_separator(call[s].OUT_LEN, call[s].WIDTH,
                                                     call[s].params))]
    /\ UNCHANGED <<tweakVars, cacheVars, call>>

NextDomainSeparator == \E s \in DOMAIN call : DomainSeparator(s)

SpecDomainSeparator == InitDomainSeparator /\ [][NextDomainSeparator]_vars

(***************************************************************************)
(* Source tables of generate_round_constants: the expected table and its   *)
(* mis-shaped variants.                                                    *)
(***************************************************************************)
Row(r, n) == [j \in 1..n |-> 100 * r + j]
ExpectedTable(w) ==
    [r \in 1..(2 * BABY_BEAR_POSEIDON2_HALF_FULL_ROUNDS + PartialRounds(w)) |-> Row(r, w)]
WithRowOfLength(table, k, n) == [r \in 1..Len(table) |-> IF r = k THEN Row(r, n) ELSE table[r]]

SourceTables(w) ==
    LET t == ExpectedTable(w)
    IN  {t}
        \cup {WithRowOfLength(t, k, n) : k \in 1..Len(t), n \in {0, 1, w - 1, w + 1}}
        \cup {SubSeq(t, 1, Len(t) - d) : d \in 1..MaxRowDelta}
        \cup {t \o [r \in 1..d |-> Row(Len(t) + r, w)] : d \in 1..MaxRowDelta}

RoundConstantCalls ==
    UNION {{[op |-> "generate_round_constants", WIDTH |-> w, P |-> PartialRounds(w),
             rc_source |-> t] : t \in SourceTables(w)} : w \in Widths}

InitRoundConstants ==
    /\ NoTweak
    /\ NoCache
    /\ call \in {<<c>> : c \in RoundConstantCalls}
    /\ ret = <<None>>

GenerateRoundConstants(s) ==
    /\ call[s].op = "generate_round_constants"
    /\ ret[s] = None
    /\ ret' = [ret EXCEPT ![s] =
                 Some(generate_round_constants(call[s].WIDTH, call[s].P, call[s].rc_source))]
    /\ UNCHANGED <<tweakVars, cacheVars, call>>

NextRoundConstants == \E s \in DOMAIN call : GenerateRoundConstants(s)

SpecRoundConstants == InitRoundConstants /\ [][NextRoundConstants]_vars

(***************************************************************************)
(* The constant caches: BABYBEAR_POSEIDON2_16 / BABYBEAR_POSEIDON2_24 are  *)
(* OnceLock statics, read through get_poseidon2_16 / get_poseidon2_24 by   *)
(* any number of threads.  OnceLock::get_or_init(f) is                     *)
(*     if let Some(v) = self.get() { return v }                            *)
(*     self.initialize(f);   -- once.call_once_force(|| slot.write(f()))   *)
(*     unsafe { self.get_unchecked() }                                     *)
(* and a thread that finds the Once running blocks until it is complete.   *)
(***************************************************************************)
\* the Once lets a thread run the closure only from the incomplete state
CanBegin_AlsoWhileRunning(w) == once[w] # "complete"
CanBegin(w) == once[w] = "incomplete"

\* the constants one run of generate_round_constants builds for a width;
\* generation tells apart the results of separate runs
RoundConstants(w, generation) ==
    [WIDTH |-> w,
     generation |-> generation,
     constants |-> generate_round_constants(w, PartialRounds(w), ExpectedTable(w)).out]

InitCache ==
    /\ NoTweak
    /\ NoCache
    /\ call = <<>>
    /\ ret = <<>>

\* get_poseidon2_16() / get_poseidon2_24(): enter get_or_init, whose first
\* step is the fast path self.get()
GetOrInit(t, w) ==
    /\ pc[t] = "idle"
    /\ calls[t] < MaxCalls
    /\ calls' = [calls EXCEPT ![t] = @ + 1]
    /\ width' = [width EXCEPT ![t] = w]
    /\ pc' = [pc EXCEPT ![t] = IF once[w] = "complete" THEN "get" ELSE "initialize"]
    /\ UNCHANGED <<tweakVars, hashVars, used, once, cell, value, returned, conversions, stores, first>>

\* Once::call_once_force: the thread that finds the Once incomplete runs the closure
Begin(t) ==
    /\ pc[t] = "initialize"
    /\ CanBegin(width[t])
    /\ once' = [once EXCEPT ![width[t]] = "running"]
    /\ pc' = [pc EXCEPT ![t] = "closure"]
    /\ UNCHANGED <<tweakVars, hashVars, used, cell, width, value, calls, returned, conversions, stores, first>>

\* Once::call_once_force: a thread that finds (or, after waiting, sees) the
\* Once complete returns without running the closure
AlreadyComplete(t) ==
    /\ pc[t] = "initialize"
    /\ once[width[t]] = "complete"
    /\ pc' = [pc EXCEPT ![t] = "get_unchecked"]
    /\ UNCHANGED <<tweakVars, hashVars, used, once, cell, width, value, calls, returned, conversions, stores, first>>

\* the closure: generate_round_constants::<WIDTH, P>(&RC16 / &RC24)
Closure(t) ==
    /\ pc[t] = "closure"
    /\ conversions' = [conversions EXCEPT ![width[t]] = @ + 1]
    /\ value' = [value EXCEPT ![t] = Some(RoundConstants(width[t], conversions'[width[t]]))]
    /\ pc' = [pc EXCEPT ![t] = "write"]
    /\ UNCHANGED <<tweakVars, hashVars, used, once, cell, width, calls, returned, stores, first>>

\* slot.write(value), then the Once becomes complete and the waiters wake
SlotWrite(t) ==
    /\ pc[t] = "write"
    /\ cell' = [cell EXCEPT ![width[t]] = value[t]]
    /\ stores' = [stores EXCEPT ![width[t]] = @ + 1]
    /\ first' = [first EXCEPT ![width[t]] = IF @ = None THEN value[t] ELSE @]
    /\ once' = [once EXCEPT ![width[t]] = "complete"]
    /\ pc' = [pc EXCEPT ![t] = "get_unchecked"]
    /\ UNCHANGED <<tweakVars, hashVars, used, width, value, calls, returned, conversions>>

\* the getter returns the reference to the slot; returned records what the
\* caller sees through it
Return(t) ==
    /\ pc[t] \in {"get", "get_unchecked"}
    /\ returned' = [returned EXCEPT ![width[t]] = @ \cup {cell[width[t]]}]
    /\ value' = [value EXCEPT ![t] = None]
    /\ pc' = [pc EXCEPT ![t] = "idle"]
    /\ UNCHANGED <<tweakVars, hashVars, used, once, cell, width, calls, conversions, stores, first>>

NextCache ==
    \E t \in Threads :
        \/ \E w \in Widths : GetOrInit(t, w)
        \/ Begin(t)
        \/ AlreadyComplete(t)
        \/ Closure(t)
        \/ SlotWrite(t)
        \/ Return(t)

SpecCache == InitCache /\ [][NextCache]_vars

(***************************************************************************)
(* The process: threads call apply() and the constant getters in any       *)
(* order.  apply() takes its permutation from poseidon2_instance_short()   *)
(* (1 block) or poseidon2_instance() (every other number of blocks), and   *)
(* each of these runs generate_round_constants on the source table.        *)
(***************************************************************************)
\* the width of the instance apply() builds for a message of n blocks
InstanceWidth(n) == IF n = 1 THEN POSEIDON2_WIDTH_16 ELSE POSEIDON2_WIDTH_24

\* apply() on a message of n blocks: poseidon2_instance_short() /
\* poseidon2_instance() converts the source table, and the digest is
\* computed with the permutation built from these constants
ApplyWithInstance(t, n) ==
    LET w == InstanceWidth(n)
    IN  /\ pc[t] = "idle"
        /\ calls[t] < MaxCalls
        /\ calls' = [calls EXCEPT ![t] = @ + 1]
        /\ conversions' = [conversions EXCEPT ![w] = @ + 1]
        /\ used' = [used EXCEPT ![w] = @ \cup {Some(RoundConstants(w, conversions'[w]))}]
        /\ UNCHANGED <<tweakVars, hashVars, once, cell, pc, width, value, returned,
                       stores, first>>

NextProcess ==
    \E t \in Threads :
        \/ \E n \in 0..MaxBlocks : ApplyWithInstance(t, n)
        \/ \E w \in Widths : GetOrInit(t, w)
        \/ Begin(t)
        \/ AlreadyComplete(t)
        \/ Closure(t)
        \/ SlotWrite(t)
        \/ Return(t)

SpecProcess == InitCache /\ [][NextProcess]_vars

(***************************************************************************)
(* Arithmetic of the claims on wide integers: sum and product by PRIME,    *)
(* independent of the division above.                                      *)
(***************************************************************************)
\* a[lo..hi] + b[lo..hi] + carry c, as the sum bits and the carry out
RECURSIVE AddRange(_, _, _, _, _)
AddRange(a, b, c, lo, hi) ==
    IF lo = hi
    THEN [s |-> <<(a[lo] + b[lo] + c) % 2>>, c |-> (a[lo] + b[lo] + c) \div 2]
    ELSE LET mid == (lo + hi) \div 2
         IN  CHOOSE res \in UNION {
                 {[s |-> low.s \o up.s, c |-> up.c] :
                      up \in {AddRange(a, b, low.c, mid + 1, hi)}} :
                 low \in {AddRange(a, b, c, lo, mid)}} : TRUE

\* a + b of two integers of the same width, one bit wider
Add(a, b) == LET r == AddRange(a, b, 0, 1, Len(a)) IN r.s \o <<r.c>>

\* a field element (below 2^31) as 32 bits
ElemBits(e) == ToBits(e % 65536, 16) \o ToBits(e \div 65536, 16)

\* x * PRIME + e, with PRIME = 2^30 + 2^29 + 2^28 + 2^27 + 1
TimesPrimePlus(x, e) ==
    LET w == Len(x) + 32
        X(k) == Shl(ZeroExtend(x, w), k)
    IN  Add(Add(Add(X(30), X(29)), Add(X(28), X(27))),
            ZeroExtend(Add(X(0), ZeroExtend(ElemBits(e), w)), w + 2))

\* equality of the numbers two bit sequences denote
SameNumber(a, b) ==
    LET w == IF Len(a) > Len(b) THEN Len(a) ELSE Len(b)
    IN  ZeroExtend(a, w) = ZeroExtend(b, w)

\* V div PRIME^n
RECURSIVE QuotientN(_, _)
QuotientN(V, n) == IF n = 0 THEN V ELSE QuotientN(DivModPrime(V).q, n - 1)

\* e[i] + PRIME * (e[i+1] + PRIME * (... + PRIME * Q))
RECURSIVE Recompose(_, _, _)
Recompose(e, i, Q) ==
    IF i > Len(e) THEN Q ELSE TimesPrimePlus(Recompose(e, i + 1, Q), e[i])

\* e holds the Len(e) lowest base-PRIME digits of V: every e[i] is below
\* PRIME and V = sum e[i] * PRIME^(i-1) + PRIME^Len(e) * (V div PRIME^Len(e))
IsBasePrimeExpansion(V, e) ==
    /\ \A i \in 1..Len(e) : e[i] \in 0..(PRIME - 1)
    /\ SameNumber(Recompose(e, 1, QuotientN(V, Len(e))), V)

\* level * 2^40 + position * 2^8 + 0x01, digit by digit
TreeValue(t) == ToBits(1, 8) \o U32Bits(t.position) \o ToBits(t.level, 8)

\* epoch * 2^40 + chain_index * 2^24 + position * 2^8 + 0x00
ChainValue(c) ==
    ToBits(0, 8) \o ToBits(c.position, 16) \o ToBits(c.chain_index, 16)
    \o U32Bits(c.epoch)

(***************************************************************************)
(* C5: the tweak encoding is the little-endian base-p expansion of the     *)
(* packed integer: to_field_elements() returns exactly TWEAK_LEN elements, *)
(* element i is digit i of V in base p (the early stop at V = 0 changes    *)
(* nothing, the digits from TWEAK_LEN on are dropped), and the vectors of  *)
(* the tests come out: tree (0,0) -> [1,0], chain (0,0,0) -> [0,0],        *)
(* tree (1,2) -> [268435423, 546], chain (1,2,3) -> [301990110, 546].      *)
(***************************************************************************)
C5_Vectors ==
    /\ tree_fe # None /\ tweak_len = 2 =>
          /\ tree = [level |-> 0, position |-> <<0, 0>>] => tree_fe = Some(<<1, 0>>)
          /\ tree = [level |-> 1, position |-> <<0, 2>>]
                => tree_fe = Some(<<268435423, 546>>)
    /\ chain_fe # None /\ tweak_len = 2 =>
          /\ chain = [epoch |-> <<0, 0>>, chain_index |-> 0, position |-> 0]
                => chain_fe = Some(<<0, 0>>)
          /\ chain = [epoch |-> <<0, 1>>, chain_index |-> 2, position |-> 3]
                => chain_fe = Some(<<301990110, 546>>)

C5_TweakEncodingIsBasePrimeExpansion ==
    /\ tree_fe # None =>
          /\ Len(tree_fe[1]) = tweak_len
          /\ IsBasePrimeExpansion(TreeValue(tree), tree_fe[1])
    /\ chain_fe # None =>
          /\ Len(chain_fe[1]) = tweak_len
          /\ IsBasePrimeExpansion(ChainValue(chain), chain_fe[1])
    /\ C5_Vectors

\* both kinds encoded, one with the early stop taken (tree: V < p^2 and
\* TWEAK_LEN = 4) and one with digits dropped (chain: V >= p^2, TWEAK_LEN = 2)
C5_Witness ==
    \/ /\ tree_fe = Some(<<268295391, 139810, 0, 0>>)
       /\ tree = [level |-> U8_MAX, position |-> U32_MAX]
    \/ /\ chain_fe = Some(<<98427243, 170006792>>)
       /\ chain = [epoch |-> U32_MAX, chain_index |-> U16_MAX, position |-> U16_MAX]

(***************************************************************************)
(* C3 as stated, at the TWEAK_LEN it names: with TWEAK_LEN = 2 a tree      *)
(* tweak and a chain tweak never encode to the same vector.                *)
(***************************************************************************)
C3_Original ==
    tree_fe # None /\ chain_fe # None /\ tweak_len = 2 => tree_fe # chain_fe

(***************************************************************************)
(* C3 amended: with TWEAK_LEN >= 3, enough digits for every packed value   *)
(* (chain values are below 2^72 < p^3), a tree tweak and a chain tweak     *)
(* never encode to the same vector.                                        *)
(***************************************************************************)
C3_TreeAndChainDifferFromThreeDigits ==
    tree_fe # None /\ chain_fe # None /\ tweak_len >= 3 => tree_fe # chain_fe

\* the pair that collides on two digits, told apart by the third
C3_Witness ==
    /\ tweak_len = 3
    /\ tree = [level |-> 0, position |-> <<0, 0>>]
    /\ chain = [epoch |-> <<14343, 49152>>, chain_index |-> 61200, position |-> 1]
    /\ tree_fe = Some(<<1, 0, 0>>)
    /\ chain_fe = Some(<<1, 0, 255>>)

\* a + b modulo PRIME for the claims
FieldSum(a, b) == IF (a - PRIME) + b >= 0 THEN (a - PRIME) + b ELSE a + b

\* the zero-padding of x to n elements
PadTo(x, n) == [i \in 1..n |-> IF i <= Len(x) THEN x[i] ELSE 0]

(***************************************************************************)
(* C4: compression feed-forward law: for OUT_LEN <= len(x) <= WIDTH,       *)
(* poseidon2_compress returns exactly OUT_LEN elements, element i being    *)
(* permute(x zero-padded to WIDTH)[i] + x[i] in the field, and invokes the *)
(* permutation exactly once.                                               *)
(***************************************************************************)
C4_CompressFeedForward ==
    \A s \in DOMAIN call :
        (/\ call[s].op = "compress"
         /\ ret[s] # None
         /\ call[s].OUT_LEN <= Len(call[s].x)
         /\ Len(call[s].x) <= call[s].WIDTH)
        => LET r == ret[s][1]
               x == call[s].x
               permuted == Permute(PadTo(x, call[s].WIDTH))
           IN  /\ ~r.panic
               /\ Len(r.out) = call[s].OUT_LEN
               /\ \A i \in 1..call[s].OUT_LEN :
                     r.out[i] = FieldSum(permuted[i], x[i])
               /\ r.perms = 1

\* a compression of a short input whose sums wrap around p
C4_Witness ==
    /\ call[1] = [op |-> "compress", WIDTH |-> 16, OUT_LEN |-> 8,
                  x |-> Fill(10, PRIME - 1)]
    /\ ret[1] = Some(Returned([i \in 1..8 |-> i + 4], 1))

(***************************************************************************)
(* C8: precondition violations fail fast: poseidon2_padded_permute panics  *)
(* whenever len(x) > WIDTH, poseidon2_compress panics whenever             *)
(* len(x) < OUT_LEN or len(x) > WIDTH, and in each of these failures the   *)
(* permutation is never invoked and nothing is returned.                   *)
(***************************************************************************)
C8_PreconditionsFailFast ==
    \A s \in DOMAIN call :
        ret[s] # None =>
            LET r == ret[s][1]
                n == Len(call[s].x)
                violated ==
                    \/ call[s].op = "padded_permute" /\ n > call[s].WIDTH
                    \/ call[s].op = "compress"
                         /\ (n < call[s].OUT_LEN \/ n > call[s].WIDTH)
            IN  violated => r.panic /\ r.perms = 0 /\ r.out = <<>>

\* a compression that panics in padded_permute (len(x) > WIDTH, not < OUT_LEN)
C8_Witness ==
    /\ call[1] = [op |-> "compress", WIDTH |-> 16, OUT_LEN |-> 8, x |-> Ramp(17)]
    /\ ret[1] = Some(Panicked(0))

\* Truncate(PoseidonPerm(pad(x)) + x) to OUT_LEN elements on width WIDTH
CompressionOf(OUT_LEN, WIDTH, x) ==
    [i \in 1..OUT_LEN |-> FieldSum(Permute(PadTo(x, WIDTH))[i], x[i])]

(***************************************************************************)
(* C1: apply() dispatches on the number of message blocks: with 1 block    *)
(* and PARAMETER_LEN + TWEAK_LEN + HASH_LEN <= 16 the digest is the        *)
(* compression on width 16 of parameter || encode(tweak) || message[0];    *)
(* with 2 blocks and PARAMETER_LEN + TWEAK_LEN + 2*HASH_LEN <= 24 it is    *)
(* the compression on width 24 of parameter || encode(tweak) ||            *)
(* message[0] || message[1]; the digest has exactly HASH_LEN elements.     *)
(***************************************************************************)
C1_ApplyCompressesOneAndTwoBlocks ==
    \A s \in DOMAIN call :
        call[s].op = "apply" /\ ret[s] # None =>
            LET h == call[s]
                r == ret[s][1]
                head == h.parameter \o PoseidonTweakToFieldElements(h.tweak, h.TWEAK_LEN)
            IN  /\ (/\ Len(h.message) = 1
                    /\ h.PARAMETER_LEN + h.TWEAK_LEN + h.HASH_LEN <= 16)
                   => /\ ~r.panic
                      /\ Len(r.out) = h.HASH_LEN
                      /\ r.out = CompressionOf(h.HASH_LEN, 16, head \o h.message[1])
                /\ (/\ Len(h.message) = 2
                    /\ h.PARAMETER_LEN + h.TWEAK_LEN + 2 * h.HASH_LEN <= 24)
                   => /\ ~r.panic
                      /\ Len(r.out) = h.HASH_LEN
                      /\ r.out = CompressionOf(h.HASH_LEN, 24,
                                               head \o h.message[1] \o h.message[2])

\* a one-block digest that fills the width-16 state exactly (5 + 2 + 9)
C1_Witness ==
    /\ call[1].op = "apply"
    /\ Len(call[1].message) = 1
    /\ call[1].PARAMETER_LEN = 5 /\ call[1].TWEAK_LEN = 2 /\ call[1].HASH_LEN = 9
    /\ ret[1] # None
    /\ ~ret[1][1].panic
    /\ Len(ret[1][1].out) = 9

(***************************************************************************)
(* C2 as stated: with more than 2 message blocks the digest is the sponge  *)
(* hash (width 24, HASH_LEN outputs) of parameter || encode(tweak) ||      *)
(* flatten(message), its capacity value being the domain separator of      *)
(* [PARAMETER_LEN, TWEAK_LEN, NUM_CHUNKS, HASH_LEN].                       *)
(***************************************************************************)
C2_ManyBlocksAreSpongeHashed ==
    \A s \in DOMAIN call :
        call[s].op = "apply" /\ ret[s] # None /\ Len(call[s].message) > 2 =>
            LET h == call[s]
                lengths == <<Usize(h.PARAMETER_LEN), Usize(h.TWEAK_LEN),
                             Usize(h.NUM_CHUNKS), Usize(h.HASH_LEN)>>
                safe_input == poseidon_safe_domain_separator(h.CAPACITY, 24, lengths).out
                combined_input ==
                    h.parameter \o PoseidonTweakToFieldElements(h.tweak, h.TWEAK_LEN)
                    \o Flatten(h.message, h.HASH_LEN)
            IN  ret[s][1].out =
                    poseidon2_sponge(h.HASH_LEN, h.CAPACITY, 24, safe_input,
                                     combined_input).out

(***************************************************************************)
(* C6 as stated: two different lists of configuration integers give two    *)
(* different vectors to the compression of                                 *)
(* poseidon_safe_domain_separator.                                         *)
(***************************************************************************)
C6_Original ==
    (/\ call[1].op = "domain_separator"
     /\ ret[1] # None /\ ret[2] # None
     /\ call[1].params # call[2].params)
    => ret[1][1].input # ret[2][1].input

(***************************************************************************)
(* C6 amended: two different lists of the same length whose items are all  *)
(* below 2^32 give two different vectors to the compression.               *)
(***************************************************************************)
FitsU32(params) == \A i \in 1..Len(params) : params[i][1] = 0

C6_SameLengthListsGiveDifferentInputs ==
    (/\ call[1].op = "domain_separator"
     /\ ret[1] # None /\ ret[2] # None
     /\ call[1].params # call[2].params
     /\ Len(call[1].params) = Len(call[2].params)
     /\ FitsU32(call[1].params) /\ FitsU32(call[2].params))
    => ret[1][1].input # ret[2][1].input

\* two configurations that differ in the hash length only
C6_Witness ==
    /\ call[1].op = "domain_separator"
    /\ call[1].params = <<Usize(5), Usize(2), Usize(3), Usize(7)>>
    /\ call[2].params = <<Usize(5), Usize(2), Usize(3), Usize(9)>>
    /\ ret[1] # None /\ ret[2] # None
    /\ ret[1][1].input[1] # ret[2][1].input[1]
    /\ ret[1][1].input[4] = 48

(***************************************************************************)
(* C7 as stated: for the same input, two capacity values that differ in    *)
(* at least one position give two different initial states of the sponge,  *)
(* and two different states after the first chunk is absorbed.             *)
(***************************************************************************)
C7_CapacitySeparatesStates ==
    (/\ call[1].op = "sponge"
     /\ ret[1] # None /\ ret[2] # None
     /\ call[1].capacity_value # call[2].capacity_value)
    => /\ ret[1][1].states[1] # ret[2][1].states[1]
       /\ ret[1][1].absorbed >= 1 => ret[1][1].states[2] # ret[2][1].states[2]

(***************************************************************************)
(* C10 as stated: generate_round_constants returns constants only for a    *)
(* source table of exactly the expected round structure (4 + P + 4 rows,   *)
(* the full-round rows of exactly WIDTH elements) and fails for every      *)
(* table whose shape differs: too few rows, too many rows, a full-round    *)
(* row of the wrong length.                                                *)
(***************************************************************************)
ExpectedShape(WIDTH, P, table) ==
    /\ Len(table) = 2 * BABY_BEAR_POSEIDON2_HALF_FULL_ROUNDS + P
    /\ \A r \in 1..Len(table) :
          (r <= BABY_BEAR_POSEIDON2_HALF_FULL_ROUNDS
           \/ r > BABY_BEAR_POSEIDON2_HALF_FULL_ROUNDS + P) => Len(table[r]) = WIDTH

C10_MisShapedTableFails ==
    \A s \in DOMAIN call :
        call[s].op = "generate_round_constants" /\ ret[s] # None =>
            (~ExpectedShape(call[s].WIDTH, call[s].P, call[s].rc_source)
                => ret[s][1].panic)

(***************************************************************************)
(* C9: each width's cache is initialize-once under every interleaving of   *)
(* getter calls: its slot is written at most once, holds the value first   *)
(* written ever after, every call returns that one instance, and a write   *)
(* for one width leaves the other width's cache alone (a slot holds        *)
(* constants of its own width only, and is set exactly when a write for    *)
(* its width has happened).                                                *)
(***************************************************************************)
C9_CacheInitializeOnce ==
    \A w \in Widths :
        /\ stores[w] <= 1
        /\ cell[w] = first[w]
        /\ (cell[w] # None) <=> (stores[w] = 1)
        /\ (once[w] = "complete") <=> (cell[w] # None)
        /\ cell[w] # None => cell[w][1].WIDTH = w
        /\ returned[w] \subseteq {first[w]} \ {None}

\* two threads made concurrent first calls for one width (both missed the
\* fast path), one of them wrote the slot, and both are about to return it
C9_Witness ==
    /\ \A t \in {1, 2} : pc[t] = "get_unchecked" /\ width[t] = POSEIDON2_WIDTH_24
    /\ stores[POSEIDON2_WIDTH_24] = 1
    /\ cell[POSEIDON2_WIDTH_24] # None
    /\ cell[POSEIDON2_WIDTH_16] = None

(***************************************************************************)
(* C11 as stated: over any sequence of apply() calls mixed with calls of   *)
(* the constant getters, the source table of a width is converted into     *)
(* round constants at most once, and every hash invocation of that width   *)
(* uses the cached instance.                                               *)
(***************************************************************************)
C11_ConvertedOnceAndShared ==
    \A w \in Widths :
        /\ conversions[w] <= 1
        /\ \A u \in used[w] : u = cell[w]

\* x right-padded with zeros to the next multiple of rate
PadToRate(x, rate) ==
    LET m == ((Len(x) + rate - 1) \div rate) * rate
    IN  [i \in 1..m |-> IF i <= Len(x) THEN x[i] ELSE 0]

\* the smaller of two numbers
Min(a, b) == IF a <= b THEN a ELSE b

(***************************************************************************)
(* C12: the sponge does not bind the input length: with the same capacity  *)
(* value, two inputs that are equal after right-padding with zeros to a    *)
(* multiple of RATE give the same digest; and for the empty input no chunk *)
(* is absorbed, the only permutations are those of the squeeze, and the    *)
(* output begins with the unpermuted initial state (the capacity value,    *)
(* then zeros).                                                            *)
(***************************************************************************)
C12_SpongeDoesNotBindLength ==
    (call # <<>> /\ \A s \in DOMAIN call : call[s].op = "sponge" /\ ret[s] # None)
    => LET rate == call[1].WIDTH - call[1].CAPACITY
       IN  /\ (/\ [call[1] EXCEPT !.x = <<>>] = [call[2] EXCEPT !.x = <<>>]
               /\ PadToRate(call[1].x, rate) = PadToRate(call[2].x, rate))
              => ret[1][1].out = ret[2][1].out
           /\ \A s \in DOMAIN call :
                 call[s].x = <<>> =>
                     LET r == ret[s][1]
                         c == call[s]
                         n == c.WIDTH - c.CAPACITY
                     IN  /\ r.absorbed = 0
                         /\ r.perms = (c.OUT_LEN + n - 1) \div n
                         /\ \A i \in 1..Min(c.OUT_LEN, n) :
                               r.out[i] = IF i <= c.CAPACITY THEN c.capacity_value[i] ELSE 0

\* one element, and the same element followed by two zeros, absorbed as one
\* chunk of 7 and squeezed twice, give one digest
C12_Witness ==
    /\ call # <<>>
    /\ call[1] = [op |-> "sponge", WIDTH |-> 16, CAPACITY |-> 9, OUT_LEN |-> 8,
                  capacity_value |-> Unit(9, 1), x |-> <<1>>]
    /\ call[2] = [call[1] EXCEPT !.x = <<1, 0, 0>>]
    /\ ret[1] # None /\ ret[2] # None
    /\ ret[1][1].absorbed = 1 /\ ret[1][1].perms = 3
    /\ ret[1][1].out = ret[2][1].out
====
